---------------------------- MODULE Spec2Model ----------------------------
(***************************************************************************)
(* A model of smcli's wallet commands (src/cmd/wallet.go): create, read,   *)
(* sign, balance, spawn and send, the wallet file they share on disk, and  *)
(* the wallet package they call (key derivation, container Export/Open),   *)
(* which is modelled from the specification where its source is absent.    *)
(*                                                                         *)
(* Printed text is a sequence of one-character strings; key material is a  *)
(* sequence of bytes (0..255).                                              *)
(***************************************************************************)
EXTENDS Integers, Sequences, FiniteSets, TLC

(***************************************************************************)
(* Bounds of the model.                                                    *)
(***************************************************************************)
\* largest account-count argument tried by `wallet create`
MaxArg == 2
\* longest column string given to the width enforcer in isolation
MaxColLen == 10

(***************************************************************************)
(* Program constants.                                                      *)
(***************************************************************************)
\* maxWidth := 20 (abbreviated keys)
AbbrevWidth == 20
\* maxWidth = 150 (--full)
FullWidth == 150
\* "full key is 64 bytes which is 128 chars in hex"
PrivateKeySize == 64
PublicKeySize == PrivateKeySize \div 2
\* the width of a nonce: uint64
Uint64Bits == 64

(***************************************************************************)
(* Generic helpers on sequences.                                           *)
(***************************************************************************)
Range(s) == {s[i] : i \in DOMAIN s}

\* Go's s[a:b] with 0-based, half-open bounds
Slice(s, a, b) == [i \in 1..(b - a) |-> s[a + i]]

Min(a, b) == IF a <= b THEN a ELSE b

\* an absent optional value (a nil pointer) is the empty sequence, a present
\* one a sequence of length one
NoKeypair == <<>>
NoSalt == <<>>
NoKey == <<>>

\* a uint64 is its four 16-bit limbs, the least significant first
LimbBase == 2^16
Limbs == 1..(Uint64Bits \div 16)
Uint64(v) == [i \in Limbs |-> IF i = 1 THEN v ELSE 0]
MaxUint64 == [i \in Limbs |-> LimbBase - 1]

\* x + 1 on uint64: the carry runs through the limbs that are full, and out
\* of the last one
Uint64Inc(x) ==
    LET full(i) == \A j \in 1..i : x[j] = LimbBase - 1
    IN  [i \in Limbs |->
            IF full(i - 1) THEN (x[i] + 1) % LimbBase ELSE x[i]]

(***************************************************************************)
(* Text entered at the mnemonic prompt, as a sequence of tokens: words and *)
(* whitespace characters.                                                  *)
(***************************************************************************)
Whitespace == {" ", "\t", "\n", "\r"}

RECURSIVE TrimLeft(_)
TrimLeft(s) ==
    IF s # <<>> /\ s[1] \in Whitespace THEN TrimLeft(Tail(s)) ELSE s

RECURSIVE TrimRight(_)
TrimRight(s) ==
    IF s # <<>> /\ s[Len(s)] \in Whitespace
    THEN TrimRight(SubSeq(s, 1, Len(s) - 1))
    ELSE s

\* strings.TrimSpace
TrimSpace(s) == TrimLeft(TrimRight(s))

MnemonicA == <<"abandon", " ", "ability">>
MnemonicB == <<"zoo", " ", "wrong">>
MnemonicC == <<"legal", " ", "winner">>

\* what the user may type at the mnemonic prompt
Texts ==
    { <<>>, <<" ", "\r", "\n">>,
      MnemonicA, <<" ">> \o MnemonicB \o <<"\r", "\n">>,
      <<"abandon", " ", "zoo">>, <<"\t", "notaword", "\n">> }

\* mnemonics the random generator may return
GeneratedMnemonics == {MnemonicB, MnemonicC}

Passwords == {"", "hunter2", "correct-horse"}
Salts == {<<1>>, <<2>>}
Hrps == {"sm", "stest"}

(***************************************************************************)
(* Mnemonic/Seed derivation and hierarchical key derivation (wallet        *)
(* package).                                                               *)
(***************************************************************************)
\* parse_mnemonic: word count and checksum must match
IsMnemonicValid(m) == m \in {MnemonicA, MnemonicB, MnemonicC}

\* mnemonic_to_seed: deterministic, distinct mnemonics give distinct seeds
SeedOf(m) ==
    CASE m = MnemonicA -> 1
      [] m = MnemonicB -> 2
      [] m = MnemonicC -> 3
      [] OTHER -> 0

\* the bytes of a derived key: a fixed function of seed, index and kind
KeyBytes(kind, seed, idx, len) ==
    [i \in 1..len |->
        IF i <= idx + 1 /\ kind = 0 /\ seed = 2 THEN 0
        ELSE (seed * 83 + (idx + 2) * 37 + kind * 101 + i * 29) % 256]

\* derive_master
DeriveMaster(seed) ==
    [ Public |-> KeyBytes(0, seed, -1, PublicKeySize),
      Private |-> KeyBytes(1, seed, -1, PrivateKeySize),
      Path |-> <<>>,
      DisplayName |-> "Master Key",
      Created |-> "now" ]

\* derive_account: the index-th child
DeriveAccount(seed, index) ==
    [ Public |-> KeyBytes(0, seed, index, PublicKeySize),
      Private |-> KeyBytes(1, seed, index, PrivateKeySize),
      Path |-> <<index>>,
      DisplayName |-> "Child Key",
      Created |-> "now" ]

Err(e) == [ok |-> FALSE, err |-> e]
Ok(v) == [ok |-> TRUE, val |-> v]

\* build_wallet for a seed-backed wallet
BuildWallet(m, n) ==
    [ Mnemonic |-> m,
      Secrets |->
        [ MasterKeypair |-> <<DeriveMaster(SeedOf(m))>>,
          Accounts |-> [i \in 1..n |-> DeriveAccount(SeedOf(m), i - 1)] ] ]

\* wallet.NewMultiWalletFromMnemonic
NewMultiWalletFromMnemonic(m, n) ==
    IF n < 1 THEN Err("InvalidAccountCount")
    ELSE IF ~IsMnemonicValid(m) THEN Err("InvalidMnemonic")
    ELSE Ok(BuildWallet(m, n))

\* wallet.NewMultiWalletRandomMnemonic, for the mnemonic the generator drew
NewMultiWalletRandomMnemonic(m, n) ==
    IF n < 1 THEN Err("InvalidAccountCount") ELSE Ok(BuildWallet(m, n))

DeviceSeed == SeedOf(MnemonicC) + 1
DeviceStates == {"ready", "DeviceNotFound", "DeviceLocked", "DeviceRejected"}

\* a public key read from the device: Private is permanently absent
DeviceKeypair(index) ==
    [ Public |-> KeyBytes(0, DeviceSeed, index, PublicKeySize),
      Private |-> <<>>,
      Path |-> <<index>>,
      DisplayName |-> "Ledger Key",
      Created |-> "now" ]

\* wallet.NewMultiWalletFromLedger, for the state the device is in
NewMultiWalletFromLedger(dev, n) ==
    IF n < 1 THEN Err("InvalidAccountCount")
    ELSE IF dev # "ready" THEN Err(dev)
    ELSE Ok([ Mnemonic |-> <<>>,
              Secrets |->
                [ MasterKeypair |-> NoKeypair,
                  Accounts |-> [i \in 1..n |-> DeviceKeypair(i - 1)] ] ])

\* the value of a *wallet.Wallet before it is assigned
NilWallet ==
    [ Mnemonic |-> <<>>,
      Secrets |-> [MasterKeypair |-> NoKeypair, Accounts |-> <<>>] ]

\* w.Mnemonic()
MnemonicOf(w) == w.Mnemonic

\* wallet.PubkeyToAddress: injective in the key and the prefix
PubkeyToAddress(pub, hrp) == <<hrp, "1", pub>>

(***************************************************************************)
(* Key encoders: hex.EncodeToString and base58.Encode.                     *)
(***************************************************************************)
HexDigits ==
    << "0", "1", "2", "3", "4", "5", "6", "7",
       "8", "9", "a", "b", "c", "d", "e", "f" >>

\* hex.EncodeToString: two digits per byte, high nibble first
HexEncode(bytes) ==
    [i \in 1..(2 * Len(bytes)) |->
        LET b == bytes[(i + 1) \div 2]
        IN  IF i % 2 = 1 THEN HexDigits[(b \div 16) + 1]
            ELSE HexDigits[(b % 16) + 1]]

Base58Alphabet ==
    << "1", "2", "3", "4", "5", "6", "7", "8", "9",
       "A", "B", "C", "D", "E", "F", "G", "H", "J", "K", "L", "M", "N", "P",
       "Q", "R", "S", "T", "U", "V", "W", "X", "Y", "Z",
       "a", "b", "c", "d", "e", "f", "g", "h", "i", "j", "k", "m", "n", "o",
       "p", "q", "r", "s", "t", "u", "v", "w", "x", "y", "z" >>

RECURSIVE StripZeros(_)
StripZeros(x) == IF x # <<>> /\ x[1] = 0 THEN StripZeros(Tail(x)) ELSE x

\* one long division of a big-endian number by d: quotient and remainder
RECURSIVE DivMod(_, _, _, _, _)
DivMod(x, d, i, carry, q) ==
    IF i > Len(x) THEN [q |-> q, r |-> carry]
    ELSE LET cur == carry * 256 + x[i]
         IN  DivMod(x, d, i + 1, cur % d, Append(q, cur \div d))

\* the three base-58 digits of a number below 58^3
ChunkDigits(r) == <<r \div (58 * 58), (r \div 58) % 58, r % 58>>

\* the base-58 digits of a big-endian number, most significant first, taken
\* three at a time by division by 58^3
RECURSIVE Base58Digits(_)
Base58Digits(x) ==
    LET y == StripZeros(x) IN
    IF y = <<>> THEN <<>>
    ELSE LET d == DivMod(y, 58 * 58 * 58, 1, 0, <<>>)
             high == Base58Digits(d.q)
         IN  IF high = <<>> THEN StripZeros(ChunkDigits(d.r))
             ELSE high \o ChunkDigits(d.r)

\* base58.Encode: the number's digits after one "1" per leading zero byte
Base58Encode(bytes) ==
    LET digits == Base58Digits(bytes) IN
    [i \in 1..(Len(bytes) - Len(StripZeros(bytes))) |-> Base58Alphabet[1]]
    \o [i \in 1..Len(digits) |-> Base58Alphabet[digits[i] + 1]]

(***************************************************************************)
(* Encrypted container (wallet package): key construction options, Export  *)
(* and Open.  The container on disk is a sequence of items: a header, then *)
(* the payload items, then (when encrypted) an authentication tag.         *)
(***************************************************************************)
EmptyKey == [password |-> "", salt |-> NoSalt, key |-> NoKey]

\* the password-based key derivation function
Pbkdf2(password, salt) == <<"dk", password, salt>>

\* wallet.WithRandomSalt, for the salt the generator drew
WithRandomSalt(k, salt) == [k EXCEPT !.salt = salt]

\* wallet.WithPbkdf2Password: derives the key from the salt set so far
WithPbkdf2Password(k, password) ==
    [k EXCEPT !.password = password, !.key = Pbkdf2(password, k.salt)]

\* wallet.WithPasswordOnly
WithPasswordOnly(k, password) == [k EXCEPT !.password = password]

\* serialized Secrets + Mnemonic
Serialize(w) ==
    << [t |-> "mnemonic", v |-> w.Mnemonic],
       [t |-> "master", v |-> w.Secrets.MasterKeypair] >>
    \o [i \in 1..Len(w.Secrets.Accounts) |->
            [t |-> "account", v |-> <<w.Secrets.Accounts[i]>>]]

Deserialize(items) ==
    IF /\ Len(items) >= 2
       /\ items[1].t = "mnemonic"
       /\ items[2].t = "master"
       /\ \A i \in 3..Len(items) : items[i].t = "account"
    THEN Ok([ Mnemonic |-> items[1].v,
              Secrets |->
                [ MasterKeypair |-> items[2].v,
                  Accounts |-> [i \in 1..(Len(items) - 2) |-> items[i + 2].v[1]] ] ])
    ELSE Err("EncodingError")

\* authenticated encryption of the payload items under a key
Encrypt(key, items) ==
    [i \in 1..Len(items) |-> [t |-> "ct", k |-> key, v |-> items[i]]]
    \o << [t |-> "tag", k |-> key, v |-> items] >>

\* decryption: fails unless every item and the tag authenticate under key
Decrypt(key, body) ==
    LET n == Len(body) - 1
        plain == [i \in 1..n |-> body[i].v]
    IN  IF /\ n >= 0
           /\ \A i \in 1..n : body[i].t = "ct" /\ body[i].k = key
           /\ body[n + 1].t = "tag"
           /\ body[n + 1].k = key
           /\ body[n + 1].v = plain
        THEN Ok(plain)
        ELSE Err("WrongPasswordOrCorruptFile")

\* the bytes Export produces for wallet w under key k
ExportBytes(k, w) ==
    IF k.password = ""
    THEN << [t |-> "hdr", enc |-> FALSE, salt |-> NoSalt] >> \o Serialize(w)
    ELSE << [t |-> "hdr", enc |-> TRUE, salt |-> k.salt] >>
         \o Encrypt(k.key, Serialize(w))

\* Open: the wallet (or the failure) read from the bytes under key k
OpenBytes(k, bytes) ==
    IF bytes = <<>> \/ bytes[1].t # "hdr" THEN Err("EncodingError")
    ELSE IF ~bytes[1].enc THEN Deserialize(Tail(bytes))
    ELSE LET d == Decrypt(Pbkdf2(k.password, bytes[1].salt), Tail(bytes))
         IN  IF d.ok THEN Deserialize(d.val) ELSE d

\* a write of bytes at offset 0 of a file holding old, without truncation
WriteAt0(old, bytes) ==
    bytes \o SubSeq(old, Len(bytes) + 1, Len(old))

(***************************************************************************)
(* State.                                                                  *)
(***************************************************************************)
Procs == {"A", "B"}

VARIABLES
    fileExists,   \* whether common.WalletFile() exists on disk
    fileData,     \* its content (a sequence of container items)
    dirExists,    \* whether common.DotDirectory() exists
    pc,           \* each invocation's position in its command
    cmd,          \* the command each invocation runs
    flags,        \* the flags and arguments each invocation was given
    n,            \* createCmd: the number of accounts to create
    w,            \* the wallet in memory (NilWallet until assigned)
    wk,           \* the wallet key built by wallet.NewKey
    statErr,      \* createCmd: the outcome of os.Stat(walletFn)
    resp,         \* spawn, send: what the node answered so far
    trace,        \* the calls made and the text printed, in order
    exit,         \* "" while running, then how the process ended
    file0,        \* the file as it was when the invocation started
    weCol, weMax, \* a column and a limit given to the width enforcer on its own
    weOut         \* what the enforcer returned for them, once it has

diskVars == <<fileExists, fileData, dirExists>>
procVars == <<pc, cmd, flags, n, w, wk, statErr, resp, trace, exit, file0>>
weVars == <<weCol, weMax, weOut>>
vars == <<diskVars, procVars, weVars>>

\* the file as one value: existence and content
Disk == <<fileExists, fileData, dirExists>>

Ev(e, v) == [e |-> e, v |-> v]

\* the events of a kind in a trace
Count(tr, e) == Cardinality({i \in DOMAIN tr : tr[i].e = e})

NoFlags ==
    [ useLedger |-> FALSE, printPrivate |-> FALSE, printFull |-> FALSE,
      printBase58 |-> FALSE, printParent |-> FALSE, hrp |-> "sm",
      args |-> <<>> ]

\* a container written earlier by a compatible tool
OtherToolKey == WithPbkdf2Password(WithRandomSalt(EmptyKey, <<2>>), "hunter2")
OtherToolFile == ExportBytes(OtherToolKey, BuildWallet(MnemonicA, 2))

\* what may be at the wallet path before any command runs
InitialFiles ==
    { <<FALSE, <<>>, FALSE>>, <<FALSE, <<>>, TRUE>>,
      <<TRUE, <<>>, TRUE>>,
      <<TRUE, <<[t |-> "junk"]>>, TRUE>>,
      <<TRUE, OtherToolFile, TRUE>> }

InitWith(d) ==
    /\ fileExists = d[1]
    /\ fileData = d[2]
    /\ dirExists = d[3]
    /\ pc = [p \in Procs |-> "idle"]
    /\ cmd = [p \in Procs |-> ""]
    /\ flags = [p \in Procs |-> NoFlags]
    /\ n = [p \in Procs |-> 0]
    /\ w = [p \in Procs |-> NilWallet]
    /\ wk = [p \in Procs |-> EmptyKey]
    /\ statErr = [p \in Procs |-> ""]
    /\ resp = [p \in Procs |-> [genesisID |-> <<>>, counter |-> Uint64(0)]]
    /\ trace = [p \in Procs |-> <<>>]
    /\ exit = [p \in Procs |-> ""]
    /\ file0 = [p \in Procs |-> <<FALSE, <<>>, FALSE>>]

Init ==
    /\ \E d \in InitialFiles : InitWith(d)
    /\ weCol = <<>>
    /\ weMax = 0
    /\ weOut = <<>>

\* a process that runs no command
Idle(p) == pc[p] = "idle"

\* the process ends: cobra.CheckErr on an error (os.Exit(1)), log.Fatal, a
\* panic, or the return of Run
Ends(p, how) ==
    /\ pc' = [pc EXCEPT ![p] = "done"]
    /\ exit' = [exit EXCEPT ![p] = how]

\* a new invocation: its command and flags, and the disk as it finds it
Begin(p, c, f) ==
    /\ cmd' = [cmd EXCEPT ![p] = c]
    /\ flags' = [flags EXCEPT ![p] = f]
    /\ file0' = [file0 EXCEPT ![p] = Disk]
    /\ UNCHANGED <<w, wk, statErr, resp>>

\* the process has ended and its memory is gone; the disk stays as it is
ProcessExit(p) ==
    /\ pc[p] = "done"
    /\ pc' = [pc EXCEPT ![p] = "idle"]
    /\ cmd' = [cmd EXCEPT ![p] = ""]
    /\ flags' = [flags EXCEPT ![p] = NoFlags]
    /\ n' = [n EXCEPT ![p] = 0]
    /\ w' = [w EXCEPT ![p] = NilWallet]
    /\ wk' = [wk EXCEPT ![p] = EmptyKey]
    /\ statErr' = [statErr EXCEPT ![p] = ""]
    /\ resp' = [resp EXCEPT ![p] = [genesisID |-> <<>>, counter |-> Uint64(0)]]
    /\ trace' = [trace EXCEPT ![p] = <<>>]
    /\ exit' = [exit EXCEPT ![p] = ""]
    /\ file0' = [file0 EXCEPT ![p] = <<FALSE, <<>>, FALSE>>]
    /\ UNCHANGED <<diskVars, weVars>>

(***************************************************************************)
(* wallet create                                                           *)
(***************************************************************************)
Int16Max == 2^15 - 1

\* the [numaccounts] argument as typed: decimal text or not
CreateArgs ==
    { <<>> }
    \cup { <<[numeric |-> TRUE, value |-> v]>> :
             v \in ((0 - MaxArg)..MaxArg) \cup {Int16Max + 1} }
    \cup { <<[numeric |-> FALSE, value |-> 0]>> }

\* strconv.ParseInt(s, 10, 16)
ParseInt16(a) ==
    IF a.numeric /\ a.value >= 0 - Int16Max - 1 /\ a.value <= Int16Max
    THEN Ok(a.value)
    ELSE Err("strconv.ParseInt")

\* the number of accounts to create: n := 1, or the parsed argument
AccountCount(args) ==
    IF Len(args) > 0 THEN ParseInt16(args[1]) ELSE Ok(1)

\* every input the model supplies to createCmd
AllInputs ==
    [ args |-> CreateArgs, ledger |-> BOOLEAN, devices |-> DeviceStates,
      texts |-> Texts, generated |-> GeneratedMnemonics,
      passwords |-> Passwords, salts |-> Salts ]

\* createCmd.Run up to the choice of the key source
CreateStart(p, in) ==
    /\ Idle(p)
    /\ \E a \in in.args, ledger \in in.ledger :
        LET r == AccountCount(a) IN
        /\ Begin(p, "create", [NoFlags EXCEPT !.useLedger = ledger, !.args = a])
        /\ IF r.ok
           THEN /\ n' = [n EXCEPT ![p] = r.val]
                /\ pc' = [pc EXCEPT ![p] = "c_source"]
                /\ UNCHANGED <<exit, trace>>
           ELSE /\ n' = [n EXCEPT ![p] = 1]
                /\ trace' = [trace EXCEPT ![p] = <<Ev("error", <<r.err>>)>>]
                /\ Ends(p, "error")
    /\ UNCHANGED <<diskVars, weVars>>

\* a createCmd that does not check the key source's error
CreateGotWalletUnchecked(p, r, tr) ==
    /\ w' = [w EXCEPT ![p] = IF r.ok THEN r.val ELSE NilWallet]
    /\ trace' = [trace EXCEPT ![p] = tr]
    /\ pc' = [pc EXCEPT ![p] = "c_password"]
    /\ UNCHANGED exit

\* the wallet a key source returned, or its error (cobra.CheckErr)
CreateGotWallet(p, r, tr) ==
    IF r.ok
    THEN /\ w' = [w EXCEPT ![p] = r.val]
         /\ trace' = [trace EXCEPT ![p] = tr]
         /\ pc' = [pc EXCEPT ![p] = "c_password"]
         /\ UNCHANGED exit
    ELSE /\ trace' = [trace EXCEPT ![p] = Append(tr, Ev("error", <<r.err>>))]
         /\ Ends(p, "error")
         /\ UNCHANGED w

\* useLedger: the public keys are read from the device
CreateFromLedger(p, in) ==
    /\ pc[p] = "c_source"
    /\ flags[p].useLedger
    /\ \E dev \in in.devices :
        LET r == NewMultiWalletFromLedger(dev, n[p])
            tr == Append(trace[p], Ev("NewMultiWalletFromLedger", <<n[p]>>))
        IN  CreateGotWallet(p, r,
                IF r.ok THEN Append(tr, Ev("print_note_ledger", <<>>)) ELSE tr)
    /\ UNCHANGED <<diskVars, cmd, flags, n, wk, statErr, resp, file0, weVars>>

\* the text used as read, line ending and all
MnemonicTextUntrimmed(text) == text

\* the text used as the mnemonic, from the text read at the prompt
MnemonicText(text) == TrimSpace(text)

\* otherwise: the mnemonic is read from the terminal, or generated
CreateFromMnemonic(p, in) ==
    /\ pc[p] = "c_source"
    /\ ~flags[p].useLedger
    /\ LET tr0 == Append(trace[p], Ev("prompt_mnemonic", <<>>)) IN
       \/ \* password.Read fails
          /\ trace' = [trace EXCEPT ![p] = Append(tr0, Ev("error", <<"read">>))]
          /\ Ends(p, "error")
          /\ UNCHANGED w
       \/ \E entered \in in.texts :
            LET text == MnemonicText(entered)
                tr1 == Append(tr0, Ev("read_mnemonic", <<entered>>))
            IN
            IF text = <<>>
            THEN \E m \in in.generated :
                    LET r == NewMultiWalletRandomMnemonic(m, n[p])
                        tr == Append(tr1,
                                Ev("NewMultiWalletRandomMnemonic", <<n[p]>>))
                    IN  CreateGotWallet(p, r,
                            IF r.ok
                            THEN Append(tr, Ev("print_mnemonic", MnemonicOf(r.val)))
                            ELSE tr)
            ELSE LET r == NewMultiWalletFromMnemonic(text, n[p])
                     tr == Append(tr1,
                                Ev("NewMultiWalletFromMnemonic", <<text, n[p]>>))
                 IN  CreateGotWallet(p, r, tr)
    /\ UNCHANGED <<diskVars, cmd, flags, n, wk, statErr, resp, file0, weVars>>

\* the two options in the other order: the key is derived before the salt
\* is drawn
CreateKeyPasswordFirst(password, salt) ==
    WithRandomSalt(WithPbkdf2Password(EmptyKey, password), salt)

\* wallet.NewKey(wallet.WithRandomSalt(), wallet.WithPbkdf2Password(password))
CreateKey(password, salt) ==
    WithPbkdf2Password(WithRandomSalt(EmptyKey, salt), password)

\* the encryption password is read and the key built
CreatePassword(p, in) ==
    /\ pc[p] = "c_password"
    /\ LET tr0 == Append(trace[p], Ev("prompt_password", <<>>)) IN
       \/ /\ trace' = [trace EXCEPT ![p] = Append(tr0, Ev("error", <<"read">>))]
          /\ Ends(p, "error")
          /\ UNCHANGED wk
       \/ \E password \in in.passwords, salt \in in.salts :
            /\ wk' = [wk EXCEPT ![p] = CreateKey(password, salt)]
            /\ trace' = [trace EXCEPT ![p] = tr0]
            /\ pc' = [pc EXCEPT ![p] = "c_mkdir"]
            /\ UNCHANGED exit
    /\ UNCHANGED <<diskVars, cmd, flags, n, w, statErr, resp, file0, weVars>>

\* os.MkdirAll(common.DotDirectory(), 0o700)
CreateMkdir(p) ==
    /\ pc[p] = "c_mkdir"
    /\ \/ /\ dirExists' = TRUE
          /\ trace' = [trace EXCEPT ![p] = Append(@, Ev("MkdirAll", <<>>))]
          /\ pc' = [pc EXCEPT ![p] = "c_stat"]
          /\ UNCHANGED exit
       \/ \* the directory cannot be created
          /\ ~dirExists
          /\ trace' = [trace EXCEPT ![p] = Append(@, Ev("error", <<"mkdir">>))]
          /\ Ends(p, "error")
          /\ UNCHANGED dirExists
    /\ UNCHANGED <<fileExists, fileData, cmd, flags, n, w, wk, statErr, resp,
                   file0, weVars>>

\* a switch that lacks the case err == nil
StatLetsThroughExisting(err) == err \in {"ErrNotExist", "nil"}

\* the switch on os.Stat's error: which cases let the command go on
StatLetsThrough(err) == err = "ErrNotExist"

\* os.Stat(walletFn) and the switch on its error
CreateStat(p) ==
    /\ pc[p] = "c_stat"
    /\ \E err \in {IF fileExists THEN "nil" ELSE "ErrNotExist", "EACCES"} :
        /\ statErr' = [statErr EXCEPT ![p] = err]
        /\ IF StatLetsThrough(err)
           THEN /\ pc' = [pc EXCEPT ![p] = "c_open"]
                /\ UNCHANGED <<exit, trace>>
           ELSE /\ trace' = [trace EXCEPT ![p] =
                        Append(@, Ev("error",
                            <<IF err = "nil" THEN "Wallet file already exists"
                              ELSE "Error opening">>))]
                /\ Ends(p, "fatal")
    /\ UNCHANGED <<diskVars, cmd, flags, n, w, wk, resp, file0, weVars>>

\* os.OpenFile(walletFn, os.O_WRONLY|os.O_CREATE, 0o600): the file is created
\* when absent and opened as it is, without truncation, when present
CreateOpenFile(p) ==
    /\ pc[p] = "c_open"
    /\ \/ /\ fileExists' = TRUE
          /\ trace' = [trace EXCEPT ![p] = Append(@, Ev("OpenFile", <<>>))]
          /\ pc' = [pc EXCEPT ![p] = "c_export"]
          /\ UNCHANGED <<exit, fileData>>
       \/ \* the open fails
          /\ trace' = [trace EXCEPT ![p] = Append(@, Ev("error", <<"open">>))]
          /\ Ends(p, "error")
          /\ UNCHANGED <<fileExists, fileData>>
    /\ UNCHANGED <<dirExists, cmd, flags, n, w, wk, statErr, resp, file0, weVars>>

\* wk.Export(f2, w): the container is written from the start of the file
CreateExport(p) ==
    /\ pc[p] = "c_export"
    /\ LET bytes == ExportBytes(wk[p], w[p])
           tr0 == Append(trace[p], Ev("Export", bytes))
       IN
       \/ /\ fileData' = WriteAt0(fileData, bytes)
          /\ trace' = [trace EXCEPT ![p] = Append(tr0, Ev("print_saved", <<>>))]
          /\ Ends(p, "ok")
       \/ \* Export returns an error
          /\ trace' = [trace EXCEPT ![p] = Append(tr0, Ev("error", <<"export">>))]
          /\ Ends(p, "error")
          /\ UNCHANGED fileData
    /\ UNCHANGED <<fileExists, dirExists, cmd, flags, n, w, wk, statErr, resp,
                   file0, weVars>>

\* createCmd.Run, with what the user and the environment may supply
Create(p, in) ==
    \/ CreateStart(p, in)
    \/ CreateFromLedger(p, in)
    \/ CreateFromMnemonic(p, in)
    \/ CreatePassword(p, in)
    \/ CreateMkdir(p)
    \/ CreateStat(p)
    \/ CreateOpenFile(p)
    \/ CreateExport(p)

(***************************************************************************)
(* openWallet: shared by read, sign, balance, spawn and send               *)
(***************************************************************************)
OpenCmds == {"read", "sign", "balance", "spawn", "send"}

\* the first step of each command after openWallet returned a wallet
AfterOpen(c) ==
    CASE c = "read" -> "r_print"
      [] c = "sign" -> "s_sign"
      [] c = "balance" -> "b_accounts"
      [] c = "spawn" -> "sp_genesis"
      [] c = "send" -> "sd_genesis"

\* a command that opens a wallet starts: its flags are set, its locals fresh
OpenStart(p, c, f) ==
    /\ Idle(p)
    /\ Begin(p, c, f)
    /\ pc' = [pc EXCEPT ![p] = "o_file"]
    /\ UNCHANGED <<diskVars, n, trace, exit, weVars>>

\* os.Open(walletFn); cobra.CheckErr(err)
OpenWalletFile(p) ==
    /\ pc[p] = "o_file"
    /\ IF fileExists
       THEN /\ pc' = [pc EXCEPT ![p] = "o_password"]
            /\ UNCHANGED <<exit, trace>>
       ELSE /\ trace' = [trace EXCEPT ![p] = Append(@, Ev("error", <<"ENOENT">>))]
            /\ Ends(p, "error")
    /\ UNCHANGED <<diskVars, cmd, flags, n, w, wk, statErr, resp, file0, weVars>>

\* wallet.NewKey(wallet.WithPasswordOnly([]byte(password)))
OpenKey(password) == WithPasswordOnly(EmptyKey, password)

\* an openWallet that asks for the password again when Open fails
OpenOutcomeRetry(c, ok) ==
    IF ok THEN [pc |-> AfterOpen(c), exit |-> ""]
    ELSE [pc |-> "o_password", exit |-> ""]

\* where the command goes on the result of wk.Open: on with the wallet, or,
\* the error returned to the command, out through cobra.CheckErr
OpenOutcome(c, ok) ==
    IF ok THEN [pc |-> AfterOpen(c), exit |-> ""]
    ELSE [pc |-> "done", exit |-> "error"]

\* the password is read, the key built and wk.Open(f, debug) called; an error
\* of either goes back to the command, whose cobra.CheckErr ends the process
OpenWalletPassword(p) ==
    /\ pc[p] = "o_password"
    /\ LET tr0 == Append(trace[p], Ev("prompt_password", <<>>)) IN
       \/ \* password.Read fails
          /\ trace' = [trace EXCEPT ![p] = Append(tr0, Ev("error", <<"read">>))]
          /\ Ends(p, "error")
          /\ UNCHANGED <<w, wk>>
       \/ \E password \in Passwords :
            LET k == OpenKey(password)
                r == OpenBytes(k, fileData)
                tr == Append(tr0, Ev("Open", <<password>>))
            IN  /\ wk' = [wk EXCEPT ![p] = k]
                /\ pc' = [pc EXCEPT ![p] = OpenOutcome(cmd[p], r.ok).pc]
                /\ exit' = [exit EXCEPT ![p] = OpenOutcome(cmd[p], r.ok).exit]
                /\ IF r.ok
                   THEN /\ w' = [w EXCEPT ![p] = r.val]
                        /\ trace' = [trace EXCEPT ![p] = tr]
                   ELSE /\ trace' = [trace EXCEPT ![p] =
                                Append(tr, Ev("error", <<r.err>>))]
                        /\ UNCHANGED w
    /\ UNCHANGED <<diskVars, cmd, flags, n, statErr, resp, file0, weVars>>

(***************************************************************************)
(* wallet read                                                             *)
(***************************************************************************)
\* an enforcer that keeps one character too many before the dots
widthEnforcerOffByOne(col, maxLen) ==
    IF Len(col) <= maxLen THEN col
    ELSE IF maxLen <= 7 THEN Slice(col, 0, maxLen)
    ELSE Slice(col, 0, maxLen - 6) \o <<".", ".">>
         \o Slice(col, Len(col) - 5, Len(col))

\* the width enforcer of readCmd
widthEnforcer(col, maxLen) ==
    IF Len(col) <= maxLen THEN col
    ELSE IF maxLen <= 7 THEN Slice(col, 0, maxLen)
    ELSE Slice(col, 0, maxLen - 7) \o <<".", ".">>
         \o Slice(col, Len(col) - 5, Len(col))

\* maxWidth
MaxWidth(printFull) == IF printFull THEN FullWidth ELSE AbbrevWidth

\* the caption of the table
Caption(wal, f) ==
    (IF f.printPrivate THEN <<"Mnemonic: ">> \o MnemonicOf(wal) ELSE <<>>)
    \o (IF ~f.printFull
        THEN (IF f.printPrivate THEN <<"\n">> ELSE <<>>)
             \o <<"To print full keys, use the --full flag.">>
        ELSE <<>>)

\* the header row
Header(f) ==
    IF f.printPrivate
    THEN <<"address", "pubkey", "privkey", "path", "name", "created">>
    ELSE <<"address", "pubkey", "path", "name", "created">>

\* the columns whose width is enforced
EnforcedColumns(f) == IF f.printPrivate THEN {2, 3} ELSE {2}

\* encoder: hex, or base58 with --base58
encoder(f, bytes) ==
    IF f.printBase58 THEN Base58Encode(bytes) ELSE HexEncode(bytes)

NoneText == <<"(", "n", "o", "n", "e", ")">>

\* privKeyEncoder
privKeyEncoder(f, privKey) ==
    IF Len(privKey) = 0 THEN NoneText ELSE encoder(f, privKey)

\* a row that carries the private key whether or not --private is set
KeyRowAlwaysPrivate(f, addr, a) ==
    << addr, encoder(f, a.Public), privKeyEncoder(f, a.Private),
       a.Path, a.DisplayName, a.Created >>

\* the row of one keypair, with the address cell given
KeyRow(f, addr, a) ==
    IF f.printPrivate
    THEN << addr, encoder(f, a.Public), privKeyEncoder(f, a.Private),
            a.Path, a.DisplayName, a.Created >>
    ELSE << addr, encoder(f, a.Public), a.Path, a.DisplayName, a.Created >>

\* the rows appended: the master keypair with --parent, then the accounts
Rows(wal, f) ==
    (IF f.printParent /\ wal.Secrets.MasterKeypair # NoKeypair
     THEN <<KeyRow(f, <<"N/A">>, wal.Secrets.MasterKeypair[1])>>
     ELSE <<>>)
    \o [i \in 1..Len(wal.Secrets.Accounts) |->
            KeyRow(f, PubkeyToAddress(wal.Secrets.Accounts[i].Public, f.hrp),
                   wal.Secrets.Accounts[i])]

\* t.Render(): the enforcer is applied to the cells of the configured columns
RenderRow(row, f) ==
    [c \in 1..Len(row) |->
        IF c \in EnforcedColumns(f)
        THEN widthEnforcer(row[c], MaxWidth(f.printFull))
        ELSE row[c]]

\* everything `wallet read` prints for a wallet
ReadOutput(wal, f) ==
    [ caption |-> Caption(wal, f),
      header |-> Header(f),
      rows |-> LET rows == Rows(wal, f)
               IN  [i \in 1..Len(rows) |-> RenderRow(rows[i], f)] ]

ReadFlags ==
    { [NoFlags EXCEPT !.printPrivate = pp, !.printFull = pf,
                      !.printBase58 = pb, !.printParent = pa, !.hrp = h] :
        pp \in BOOLEAN, pf \in BOOLEAN, pb \in BOOLEAN, pa \in BOOLEAN,
        h \in Hrps }

ReadStart(p) == \E f \in ReadFlags : OpenStart(p, "read", f)

\* the table is built and rendered
ReadPrint(p) ==
    /\ pc[p] = "r_print"
    /\ trace' = [trace EXCEPT ![p] =
            Append(@, Ev("print_table", <<ReadOutput(w[p], flags[p])>>))]
    /\ Ends(p, "ok")
    /\ UNCHANGED <<diskVars, cmd, flags, n, w, wk, statErr, resp, file0, weVars>>

Read(p) == ReadStart(p) \/ ReadPrint(p)

(***************************************************************************)
(* wallet sign                                                             *)
(***************************************************************************)
\* the signer's answer to a key and a message: ed25519 panics on a key that
\* is not PrivateKeySize bytes long
SignerAccepts(key) == Len(key) = PrivateKeySize

Signature(key, message) == <<"sig", key, message>>

SignStart(p) ==
    OpenStart(p, "sign", [NoFlags EXCEPT !.args = <<"hello">>])

\* child account 0 is taken and its private key handed to the signer
SignMessage(p) ==
    /\ pc[p] = "s_sign"
    /\ LET accounts == w[p].Secrets.Accounts
           message == flags[p].args[1]
       IN  IF accounts = <<>>
           THEN /\ trace' = [trace EXCEPT ![p] =
                        Append(@, Ev("panic", <<"index out of range">>))]
                /\ Ends(p, "panic")
           ELSE LET child0 == accounts[1]
                    sk0 == child0.Private
                    tr == Append(trace[p], Ev("Sign", <<sk0, message>>))
                IN  IF SignerAccepts(sk0)
                    THEN /\ trace' = [trace EXCEPT ![p] =
                                Append(tr, Ev("print_signature",
                                    << message, Signature(sk0, message),
                                       HexEncode(child0.Public) >>))]
                         /\ Ends(p, "ok")
                    ELSE /\ trace' = [trace EXCEPT ![p] =
                                Append(tr, Ev("panic", <<"bad private key length">>))]
                         /\ Ends(p, "panic")
    /\ UNCHANGED <<diskVars, cmd, flags, n, w, wk, statErr, resp, file0, weVars>>

Sign(p) == SignStart(p) \/ SignMessage(p)

(***************************************************************************)
(* The node, as the commands see it.                                       *)
(***************************************************************************)
GenesisIDs == {<<"genesis">>}
\* the projected counters a node may answer with
Counters == {Uint64(0), Uint64(41), Uint64(LimbBase - 1), MaxUint64}
NoResp == [genesisID |-> <<>>, counter |-> Uint64(0)]

HrpFlags == {[NoFlags EXCEPT !.hrp = h] : h \in Hrps}

\* the balance the node reports for an address
BalanceOf(address) == 5

(***************************************************************************)
(* wallet balance                                                          *)
(***************************************************************************)
BalanceStart(p) ==
    \E f \in HrpFlags :
        OpenStart(p, "balance", [f EXCEPT !.args = <<"localhost:9092">>])

\* the Account requests of the first k accounts of a wallet
AccountRequests(accounts, hrp, k) ==
    [i \in 1..k |-> Ev("rpc_Account", <<PubkeyToAddress(accounts[i].Public, hrp)>>)]

\* the rows of the balances table
BalanceRows(accounts, hrp) ==
    [i \in 1..Len(accounts) |->
        << i - 1, PubkeyToAddress(accounts[i].Public, hrp), accounts[i].Path,
           accounts[i].DisplayName,
           BalanceOf(PubkeyToAddress(accounts[i].Public, hrp)) >>]

\* the client is made and every account's state requested in turn; the
\* table is printed when none of the requests failed
BalanceAccounts(p) ==
    /\ pc[p] = "b_accounts"
    /\ LET accounts == w[p].Secrets.Accounts
           hrp == flags[p].hrp
       IN
       \/ \* grpc.NewClient fails
          /\ trace' = [trace EXCEPT ![p] = Append(@, Ev("error", <<"grpc">>))]
          /\ Ends(p, "error")
       \/ \* the k-th request fails
          \E k \in 1..Len(accounts) :
            /\ trace' = [trace EXCEPT ![p] =
                    @ \o AccountRequests(accounts, hrp, k)
                      \o <<Ev("error", <<"rpc">>)>>]
            /\ Ends(p, "error")
       \/ /\ trace' = [trace EXCEPT ![p] =
                    @ \o AccountRequests(accounts, hrp, Len(accounts))
                      \o <<Ev("print_balances", BalanceRows(accounts, hrp))>>]
          /\ Ends(p, "ok")
    /\ UNCHANGED <<diskVars, cmd, flags, n, w, wk, statErr, resp, file0, weVars>>

Balance(p) == BalanceStart(p) \/ BalanceAccounts(p)

(***************************************************************************)
(* wallet spawn                                                            *)
(***************************************************************************)
SpawnStart(p) ==
    \E f \in HrpFlags :
        OpenStart(p, "spawn", [f EXCEPT !.args = <<"localhost:9092">>])

\* the step of spawn and send that fails before any request is made:
\* either an error (cobra.CheckErr) or a panic
FailsEarly(p, how, what) ==
    /\ trace' = [trace EXCEPT ![p] = Append(@, Ev(how, <<what>>))]
    /\ Ends(p, how)
    /\ UNCHANGED resp

\* meshClient.GenesisID: the request is made; it fails or answers
RequestGenesisID(p, next) ==
    LET tr == Append(trace[p], Ev("rpc_GenesisID", <<>>)) IN
    \/ /\ trace' = [trace EXCEPT ![p] = Append(tr, Ev("error", <<"rpc">>))]
       /\ Ends(p, "error")
       /\ UNCHANGED resp
    \/ \E g \in GenesisIDs :
        /\ resp' = [resp EXCEPT ![p].genesisID = g]
        /\ trace' = [trace EXCEPT ![p] = tr]
        /\ pc' = [pc EXCEPT ![p] = next]
        /\ UNCHANGED exit

\* txClient.SubmitTransaction of a transaction the builder was asked for
BuildAndSubmit(p, build, key, tx) ==
    LET tr == Append(trace[p], Ev(build, tx)) IN
    IF ~SignerAccepts(key)
    THEN /\ trace' = [trace EXCEPT ![p] =
                Append(tr, Ev("panic", <<"bad private key length">>))]
         /\ Ends(p, "panic")
    ELSE LET tr2 == Append(tr, Ev("rpc_SubmitTransaction", tx)) IN
         \/ /\ trace' = [trace EXCEPT ![p] = Append(tr2, Ev("error", <<"rpc">>))]
            /\ Ends(p, "error")
         \/ /\ trace' = [trace EXCEPT ![p] = Append(tr2, Ev("print_submitted", <<>>))]
            /\ Ends(p, "ok")

\* account 0 is taken, the client made and the genesis ID requested
SpawnGenesis(p) ==
    /\ pc[p] = "sp_genesis"
    /\ IF w[p].Secrets.Accounts = <<>>
       THEN FailsEarly(p, "panic", "index out of range")
       ELSE \/ FailsEarly(p, "error", "grpc")
            \/ RequestGenesisID(p, "sp_submit")
    /\ UNCHANGED <<diskVars, cmd, flags, n, w, wk, statErr, file0, weVars>>

\* nonce := uint64(0); walletSdk.SelfSpawn; txClient.SubmitTransaction
SpawnSubmit(p) ==
    /\ pc[p] = "sp_submit"
    /\ LET senderAccount == w[p].Secrets.Accounts[1]
           nonce == Uint64(0)
       IN  BuildAndSubmit(p, "SelfSpawn", senderAccount.Private,
                << senderAccount.Private, nonce, resp[p].genesisID >>)
    /\ UNCHANGED <<diskVars, cmd, flags, n, w, wk, statErr, resp, file0, weVars>>

Spawn(p) == SpawnStart(p) \/ SpawnGenesis(p) \/ SpawnSubmit(p)

(***************************************************************************)
(* wallet send                                                             *)
(***************************************************************************)
\* the [recipient address] and [smh amount] arguments: well-formed or not
SendArgs ==
    { << "localhost:9092", [valid |-> TRUE, value |-> <<"sm", "1", <<7>>>>],
         [valid |-> TRUE, value |-> 2] >>,
      << "localhost:9092", [valid |-> FALSE, value |-> <<>>],
         [valid |-> TRUE, value |-> 2] >>,
      << "localhost:9092", [valid |-> TRUE, value |-> <<"sm", "1", <<7>>>>],
         [valid |-> FALSE, value |-> 0] >> }

SendStart(p) ==
    \E f \in HrpFlags, a \in SendArgs :
        OpenStart(p, "send", [f EXCEPT !.args = a])

\* the client is made, the recipient and the amount parsed, account 0 taken
\* and the genesis ID requested
SendGenesis(p) ==
    /\ pc[p] = "sd_genesis"
    /\ \/ FailsEarly(p, "error", "grpc")
       \/ IF ~flags[p].args[2].valid
          THEN FailsEarly(p, "error", "StringToAddress")
          ELSE IF ~flags[p].args[3].valid
          THEN FailsEarly(p, "error", "ParseFloat")
          ELSE IF w[p].Secrets.Accounts = <<>>
          THEN FailsEarly(p, "panic", "index out of range")
          ELSE RequestGenesisID(p, "sd_account")
    /\ UNCHANGED <<diskVars, cmd, flags, n, w, wk, statErr, file0, weVars>>

\* globalStateClient.Account for the sender's address: the projected counter
SendAccount(p) ==
    /\ pc[p] = "sd_account"
    /\ LET senderAccount == w[p].Secrets.Accounts[1]
           senderAddress == PubkeyToAddress(senderAccount.Public, flags[p].hrp)
           tr == Append(trace[p], Ev("rpc_Account", <<senderAddress>>))
       IN
       \/ /\ trace' = [trace EXCEPT ![p] = Append(tr, Ev("error", <<"rpc">>))]
          /\ Ends(p, "error")
          /\ UNCHANGED resp
       \/ \E c \in Counters :
            /\ resp' = [resp EXCEPT ![p].counter = c]
            /\ trace' = [trace EXCEPT ![p] = tr]
            /\ pc' = [pc EXCEPT ![p] = "sd_submit"]
            /\ UNCHANGED exit
    /\ UNCHANGED <<diskVars, cmd, flags, n, w, wk, statErr, file0, weVars>>

\* a send that reuses the counter as the nonce
SpendNonceCounter(nonce) == nonce

\* nonce+1, the nonce argument of walletSdk.Spend
SpendNonce(nonce) == Uint64Inc(nonce)

\* walletSdk.Spend with nonce+1; txClient.SubmitTransaction
SendSubmit(p) ==
    /\ pc[p] = "sd_submit"
    /\ LET senderAccount == w[p].Secrets.Accounts[1]
           nonce == resp[p].counter
       IN  BuildAndSubmit(p, "Spend", senderAccount.Private,
                << senderAccount.Private, flags[p].args[2].value,
                   flags[p].args[3].value, SpendNonce(nonce), resp[p].genesisID >>)
    /\ UNCHANGED <<diskVars, cmd, flags, n, w, wk, statErr, resp, file0, weVars>>

Send(p) == SendStart(p) \/ SendGenesis(p) \/ SendAccount(p) \/ SendSubmit(p)

(***************************************************************************)
(* Specifications.                                                         *)
(***************************************************************************)
\* commands run one after another, by one process
Next ==
    \/ Create("A", AllInputs)
    \/ OpenWalletFile("A")
    \/ OpenWalletPassword("A")
    \/ Read("A")
    \/ Sign("A")
    \/ Balance("A")
    \/ Spawn("A")
    \/ Send("A")
    \/ ProcessExit("A")

Spec == Init /\ [][Next]_vars

\* two `wallet create` processes run at once on the same wallet path, each
\* asked for one or two accounts of a typed or a generated mnemonic
RaceInputs ==
    [ args |-> {<<>>, <<[numeric |-> TRUE, value |-> 2]>>},
      ledger |-> BOOLEAN, devices |-> {"ready"},
      texts |-> {MnemonicA}, generated |-> {MnemonicC},
      passwords |-> {"hunter2"}, salts |-> Salts ]

NextRace == \E p \in Procs : Create(p, RaceInputs)

SpecRace == Init /\ [][NextRace]_vars

\* the width enforcer applied on its own: to every short string over two
\* letters under every small limit, and to encoded keys under readCmd's limits
Letters == {"a", "b"}
Columns == UNION {[1..len -> Letters] : len \in 0..MaxColLen}

SampleKeys ==
    { DeriveAccount(1, 0).Public, DeriveAccount(2, 1).Public,
      DeriveAccount(1, 0).Private, DeriveMaster(3).Private,
      DeviceKeypair(0).Private, <<0>>, <<0, 0, 0, 0, 0, 0, 0, 0, 0, 0, 0, 255>> }

EncoderFlags == {[NoFlags EXCEPT !.printBase58 = b] : b \in BOOLEAN}

\* the columns and limits the enforcer is tried on
EnforcerInputs ==
    (Columns \X (0..(MaxColLen + 1)))
    \cup { <<privKeyEncoder(f, key), MaxWidth(full)>> :
             key \in SampleKeys, f \in EncoderFlags, full \in BOOLEAN }

InitWidth ==
    /\ InitWith(<<FALSE, <<>>, FALSE>>)
    /\ \E in \in EnforcerInputs :
        /\ weCol = in[1]
        /\ weMax = in[2]
    /\ weOut = <<>>

\* the enforcer is applied to the column under the limit
Enforce ==
    /\ weOut = <<>>
    /\ weOut' = <<widthEnforcer(weCol, weMax)>>
    /\ UNCHANGED <<diskVars, procVars, weCol, weMax>>

NextWidth == Enforce

SpecWidth == InitWidth /\ [][NextWidth]_vars


(***************************************************************************)
(* Properties.                                                             *)
(***************************************************************************)
\* the file at the wallet path: whether it exists, and what it holds
WalletFileNow == <<fileExists, fileData>>
WalletFileAtStart(p) == <<file0[p][1], file0[p][2]>>

\* the events of a trace whose kind is in a set
Events(tr, kinds) == {i \in DOMAIN tr : tr[i].e \in kinds}

\* the last error a process printed, if its trace ends in one
LastError(p) ==
    IF trace[p] # <<>> /\ trace[p][Len(trace[p])].e = "error"
    THEN trace[p][Len(trace[p])].v[1]
    ELSE ""

\* C1: `wallet create` never overwrites an existing wallet file.  In a
\* sequential run, when os.Stat finds a file at the wallet path (err == nil)
\* the command has ended with "Wallet file already exists", it has neither
\* opened the file for writing nor called Export, and the file exists with
\* the bytes it had when the command started.
C1_CreateNeverOverwrites ==
    \A p \in Procs :
        (cmd[p] = "create" /\ statErr[p] = "nil") =>
            /\ pc[p] = "done"
            /\ exit[p] = "fatal"
            /\ LastError(p) = "Wallet file already exists"
            /\ Events(trace[p], {"OpenFile", "Export"}) = {}
            /\ fileExists
            /\ WalletFileNow = WalletFileAtStart(p)

\* C1 witness: a create that found another tool's container at the path has
\* ended, and the container is still there
C1_ExistingFileKept ==
    \E p \in Procs :
        /\ cmd[p] = "create"
        /\ statErr[p] = "nil"
        /\ pc[p] = "done"
        /\ fileData = OtherToolFile

\* whether a create process has written its container
Wrote(p) == Events(trace[p], {"print_saved"}) # {}

\* C2: two concurrent `wallet create` processes never leave the file holding
\* bytes of two different exports: once any of them has written, the file
\* holds exactly the container one of the writers exported.
C2_NoMixedExports ==
    (\E p \in Procs : Wrote(p)) =>
        \E p \in Procs : Wrote(p) /\ fileData = ExportBytes(wk[p], w[p])


\* C2 witness of the race: both processes passed the existence check before
\* either opened the file
C2_BothPassedStat ==
    \A p \in Procs : pc[p] = "c_open" /\ statErr[p] = "ErrNotExist"

\* the errors wk.Open returns
OpenErrors ==
    {"WrongPasswordOrCorruptFile", "EncodingError", "UnsupportedFormatVersion"}

\* wk.Open was called and returned an error
OpenFailed(p) ==
    \E i \in DOMAIN trace[p] :
        trace[p][i].e = "error" /\ trace[p][i].v[1] \in OpenErrors

\* the password could not be read from the terminal
PasswordReadFailed(p) ==
    \E i \in DOMAIN trace[p] :
        trace[p][i].e = "error" /\ trace[p][i].v[1] = "read"

\* everything a command shows or sends once it has a wallet
WalletUses ==
    { "print_table", "print_signature", "print_balances", "print_submitted",
      "print_mnemonic", "Sign", "SelfSpawn", "Spend",
      "rpc_GenesisID", "rpc_Account", "rpc_SubmitTransaction" }

\* when Open fails the command ends with the error: no retry, no panic, no
\* wallet content printed, no signature, no request to the node
FailedOpenEndsQuietly(p) ==
    OpenFailed(p) =>
        /\ pc[p] = "done"
        /\ exit[p] = "error"
        /\ LastError(p) \in OpenErrors
        /\ w[p] = NilWallet
        /\ Events(trace[p], WalletUses \cup {"panic"}) = {}
        /\ Count(trace[p], "prompt_password") = 1
        /\ Count(trace[p], "Open") = 1

\* C3 as stated: every finished invocation of read, sign, balance, spawn and
\* send has prompted for the password exactly once and called Open exactly
\* once, and a failed Open ends the command quietly.
C3_PromptAndOpenExactlyOnce ==
    \A p \in Procs :
        cmd[p] \in OpenCmds =>
            /\ pc[p] = "done" =>
                /\ Count(trace[p], "prompt_password") = 1
                /\ Count(trace[p], "Open") = 1
            /\ FailedOpenEndsQuietly(p)

\* C3 amended: the password is prompted for at most once and Open called at
\* most once per invocation; a finished invocation has prompted exactly once
\* when the wallet file could be opened for reading, and has called Open
\* exactly once when moreover the password could be read; a failed Open
\* ends the command quietly.
C3_OpenAtMostOnceAndFailsQuietly ==
    \A p \in Procs :
        cmd[p] \in OpenCmds =>
            /\ Count(trace[p], "prompt_password") <= 1
            /\ Count(trace[p], "Open") <= 1
            /\ pc[p] = "done" =>
                /\ Count(trace[p], "prompt_password") =
                        (IF file0[p][1] THEN 1 ELSE 0)
                /\ Count(trace[p], "Open") =
                        (IF file0[p][1] /\ ~PasswordReadFailed(p) THEN 1 ELSE 0)
            /\ FailedOpenEndsQuietly(p)

\* C3 witness: a command was given the wrong password for an encrypted file
C3_WrongPasswordSeen ==
    \E p \in Procs :
        /\ cmd[p] \in OpenCmds
        /\ OpenFailed(p)
        /\ LastError(p) = "WrongPasswordOrCorruptFile"
        /\ fileData # <<>>
        /\ fileData[1].t = "hdr"

\* the calls that hand a private key to the signer or a transaction builder
SigningCalls == {"Sign", "SelfSpawn", "Spend"}

\* C4: sign, spawn and send never pass an absent private key on to the
\* signer or the transaction builder, and never panic.
C4_HardwareSigningFailsFast ==
    \A p \in Procs :
        cmd[p] \in {"sign", "spawn", "send"} =>
            /\ exit[p] # "panic"
            /\ \A i \in Events(trace[p], SigningCalls) : trace[p][i].v[1] # <<>>

SourceCalls ==
    { "NewMultiWalletFromLedger", "NewMultiWalletRandomMnemonic",
      "NewMultiWalletFromMnemonic" }

\* createCmd has a wallet: it is past the key source without an error
HasWallet(p) ==
    /\ Events(trace[p], SourceCalls) # {}
    /\ LastError(p) \notin
            { "InvalidAccountCount", "InvalidMnemonic", "DeviceNotFound",
              "DeviceLocked", "DeviceRejected" }

\* createCmd touched nothing on disk
DiskUntouched(p) ==
    /\ Disk = file0[p]
    /\ Events(trace[p], {"MkdirAll", "OpenFile", "Export"}) = {}

WithPrivate(a, bytes) == [a EXCEPT !.Private = bytes]

\* wallets that differ from wal in private keys and mnemonic only: one
\* without any, one with others
SecretVariants(wal) ==
    { [ Mnemonic |-> <<>>,
        Secrets |->
          [ MasterKeypair |->
                [i \in DOMAIN wal.Secrets.MasterKeypair |->
                    WithPrivate(wal.Secrets.MasterKeypair[i], <<>>)],
            Accounts |->
                [i \in DOMAIN wal.Secrets.Accounts |->
                    WithPrivate(wal.Secrets.Accounts[i], <<>>)] ] ],
      [ Mnemonic |-> IF wal.Mnemonic = MnemonicA THEN MnemonicB ELSE MnemonicA,
        Secrets |->
          [ MasterKeypair |->
                [i \in DOMAIN wal.Secrets.MasterKeypair |->
                    WithPrivate(wal.Secrets.MasterKeypair[i],
                                KeyBytes(1, 9, 0, PrivateKeySize))],
            Accounts |->
                [i \in DOMAIN wal.Secrets.Accounts |->
                    WithPrivate(wal.Secrets.Accounts[i],
                                KeyBytes(1, 9, i, PrivateKeySize))] ] ] }

\* the table a finished `wallet read` printed
Printed(p) == trace[p][Len(trace[p])].v[1]

\* C7: `wallet read` reveals secrets only with --private.  Without it, under
\* every combination of the other flags, what is printed is what would be
\* printed for any wallet that differs in private keys and mnemonic only,
\* and it has no private-key column and no mnemonic line; with it, an
\* account whose private key is empty shows "(none)" in that column.
C7_ReadRevealsSecretsOnlyWithPrivate ==
    \A p \in Procs :
        (cmd[p] = "read" /\ exit[p] = "ok") =>
            LET f == flags[p]
                out == Printed(p)
                accounts == w[p].Secrets.Accounts
                parents == Len(out.rows) - Len(accounts)
            IN  /\ ~f.printPrivate =>
                    /\ \A v \in SecretVariants(w[p]) : ReadOutput(v, f) = out
                    /\ "privkey" \notin Range(out.header)
                    /\ "Mnemonic: " \notin Range(out.caption)
                /\ f.printPrivate =>
                    \A i \in DOMAIN accounts :
                        accounts[i].Private = <<>> =>
                            out.rows[parents + i][3] = NoneText

\* C7 witness: a wallet with a mnemonic and private keys was read without
\* --private, with the parent key shown
C7_SecretWalletReadWithoutPrivate ==
    \E p \in Procs :
        /\ cmd[p] = "read"
        /\ exit[p] = "ok"
        /\ ~flags[p].printPrivate
        /\ flags[p].printParent
        /\ w[p].Mnemonic # <<>>
        /\ Len(w[p].Secrets.Accounts[1].Private) = PrivateKeySize

\* C8: the width enforcer returns the column unchanged when it fits the
\* limit and otherwise a string of exactly the limit's length; under the
\* limit of 20 a longer column is its first 13 characters, "..", and its
\* last 5; under the limit of 150 (--full) every encoded key is unchanged.
C8_WidthEnforcer ==
    weOut # <<>> =>
        LET out == weOut[1]
            len == Len(weCol)
        IN  /\ len <= weMax => out = weCol
            /\ len > weMax => Len(out) = weMax
            /\ (weMax = 20 /\ len > 20) =>
                    out = SubSeq(weCol, 1, 13) \o <<".", ".">>
                          \o SubSeq(weCol, len - 4, len)
            /\ weMax = 150 => out = weCol

\* C8 witness: a 64-byte key in hex, 128 characters, was cut to 20
C8_LongKeyAbbreviated ==
    /\ weOut # <<>>
    /\ weMax = 20
    /\ Len(weCol) = 128
    /\ Len(weOut[1]) = 20

\* text is entered without its leading and trailing whitespace
IsTrimOf(text, entered) ==
    /\ text # <<>>
    /\ text[1] \notin Whitespace
    /\ text[Len(text)] \notin Whitespace
    /\ \E a \in 0..Len(entered) :
        /\ a + Len(text) <= Len(entered)
        /\ SubSeq(entered, a + 1, a + Len(text)) = text
        /\ \A i \in 1..a : entered[i] \in Whitespace
        /\ \A i \in (a + Len(text) + 1)..Len(entered) : entered[i] \in Whitespace

\* createCmd is past the choice of the key source: the account count was
\* parsed and, without --ledger, the mnemonic text was read
SourceChosen(p) ==
    /\ pc[p] # "c_source"
    /\ LastError(p) # "strconv.ParseInt"
    /\ flags[p].useLedger \/ Events(trace[p], {"read_mnemonic"}) # {}

\* C9 as stated: every create that has ended called exactly one key source.
C9_ExactlyOneSourcePerInvocation ==
    \A p \in Procs :
        (cmd[p] = "create" /\ pc[p] = "done") =>
            Cardinality(Events(trace[p], SourceCalls)) = 1

\* C9: create uses at most one key source per invocation, and exactly one
\* once the account count was parsed and, without --ledger, the mnemonic
\* text was read.  With --ledger the device is asked and no mnemonic is
\* prompted for; otherwise the text read is trimmed and, when nothing is
\* left, a mnemonic is generated and shown, and else the trimmed text is the
\* mnemonic.  When the key source fails the command has ended before the
\* password prompt and with the disk untouched.
C9_OneKeySource ==
    \A p \in Procs :
        cmd[p] = "create" =>
            LET tr == trace[p] IN
            /\ Cardinality(Events(tr, SourceCalls)) <= 1
            /\ SourceChosen(p) => Cardinality(Events(tr, SourceCalls)) = 1
            /\ Count(tr, "prompt_mnemonic") <= 1
            /\ flags[p].useLedger =>
                    Events(tr, { "prompt_mnemonic", "read_mnemonic",
                                 "print_mnemonic", "NewMultiWalletRandomMnemonic",
                                 "NewMultiWalletFromMnemonic" }) = {}
            /\ ~flags[p].useLedger =>
                    Events(tr, {"NewMultiWalletFromLedger"}) = {}
            /\ \A i \in Events(tr, {"NewMultiWalletFromMnemonic"}) :
                    /\ tr[i - 1].e = "read_mnemonic"
                    /\ IsTrimOf(tr[i].v[1], tr[i - 1].v[1])
                    /\ Events(tr, {"print_mnemonic"}) = {}
            /\ \A i \in Events(tr, {"NewMultiWalletRandomMnemonic"}) :
                    /\ tr[i - 1].e = "read_mnemonic"
                    /\ Range(tr[i - 1].v[1]) \subseteq Whitespace
                    /\ HasWallet(p) =>
                            tr[i + 1] = Ev("print_mnemonic", w[p].Mnemonic)
            /\ (Events(tr, SourceCalls) # {} /\ ~HasWallet(p)) =>
                    /\ pc[p] = "done"
                    /\ exit[p] = "error"
                    /\ Count(tr, "prompt_password") = 0
                    /\ DiskUntouched(p)

\* C9 witness: a mnemonic typed with whitespace around it was used trimmed
C9_TypedMnemonicTrimmed ==
    \E p \in Procs :
        /\ cmd[p] = "create"
        /\ \E i \in Events(trace[p], {"NewMultiWalletFromMnemonic"}) :
            /\ trace[p][i].v[1] = MnemonicB
            /\ Len(trace[p][i - 1].v[1]) > Len(MnemonicB)
        /\ HasWallet(p)

\* the file opens as a container under some password
Openable(bytes) ==
    \E password \in Passwords : OpenBytes(OpenKey(password), bytes).ok

\* C10: a create that failed leaves no partial container: the wallet path is
\* absent, or as it was when the command started, or holds a container that
\* opens.
C10_FailedCreateLeavesNoPartialFile ==
    \A p \in Procs :
        (cmd[p] = "create" /\ pc[p] = "done" /\ exit[p] # "ok") =>
            \/ ~fileExists
            \/ WalletFileNow = WalletFileAtStart(p)
            \/ Openable(fileData)


\* the commands that submit a transaction
SubmitCmds == {"spawn", "send"}

\* the event at position i of a trace is followed by no error: the call
\* it records succeeded
Succeeded(tr, i) == i < Len(tr) => tr[i + 1].e \notin {"error", "panic"}

\* b is a + 1 without a carry out of the last limb
Uint64Succ(a, b) ==
    \E k \in Limbs :
        /\ a[k] < LimbBase - 1
        /\ b[k] = a[k] + 1
        /\ \A i \in Limbs : i < k => (a[i] = LimbBase - 1 /\ b[i] = 0)
        /\ \A i \in Limbs : i > k => b[i] = a[i]

\* SubmitTransaction is called at most once, after a successful Open and a
\* successful GenesisID request and, for send, after both arguments parsed
\* and the Account request for account 0's address under the chosen HRP
\* succeeded; the transaction submitted is the one built, with the genesis
\* ID the node gave; an error or a panic is the last thing a command does
SubmitOrdered(p) ==
    LET tr == trace[p]
        submits == Events(tr, {"rpc_SubmitTransaction"})
    IN  /\ Cardinality(submits) <= 1
        /\ \A i \in Events(tr, {"error", "panic"}) : i = Len(tr)
        /\ \A i \in submits :
            /\ \E o \in Events(tr, {"Open"}) : o < i /\ Succeeded(tr, o)
            /\ \E g \in Events(tr, {"rpc_GenesisID"}) : g < i /\ Succeeded(tr, g)
            /\ resp[p].genesisID \in GenesisIDs
            /\ tr[i].v[Len(tr[i].v)] = resp[p].genesisID
            /\ tr[i - 1].e = (IF cmd[p] = "spawn" THEN "SelfSpawn" ELSE "Spend")
            /\ tr[i - 1].v = tr[i].v
            /\ cmd[p] = "send" =>
                /\ flags[p].args[2].valid
                /\ flags[p].args[3].valid
                /\ \E g \in Events(tr, {"rpc_GenesisID"}),
                      a \in Events(tr, {"rpc_Account"}) :
                        /\ g < a
                        /\ a < i
                        /\ Succeeded(tr, a)
                        /\ tr[a].v[1] =
                            PubkeyToAddress(w[p].Secrets.Accounts[1].Public,
                                            flags[p].hrp)

\* the spawn transaction's nonce is 0
SpawnNonceZero(p) ==
    \A i \in Events(trace[p], {"SelfSpawn"}) : trace[p][i].v[2] = Uint64(0)

\* C11 as stated: submission is ordered as above, the spawn nonce is 0, and
\* the send transaction's nonce is the projected counter plus 1, whatever
\* counter the node answered with.
C11_SendNonceIsCounterPlusOne ==
    \A p \in Procs :
        cmd[p] \in SubmitCmds =>
            /\ SubmitOrdered(p)
            /\ SpawnNonceZero(p)
            /\ \A i \in Events(trace[p], {"Spend"}) :
                    Uint64Succ(resp[p].counter, trace[p][i].v[4])

\* C11: in spawn and send SubmitTransaction is called at most once per
\* invocation and only after the wallet was opened and the genesis ID was
\* obtained (for send, also after the recipient and the amount were parsed
\* and the sender's account state was fetched for the address of account 0
\* under the chosen HRP); when an earlier step fails nothing is submitted.
\* The spawn nonce is 0.  The send nonce is the projected counter plus 1 in
\* uint64 arithmetic: the counter plus 1 below 2^64 - 1, and 0 for the
\* counter 2^64 - 1.
C11_SubmitOrderAndNonce ==
    \A p \in Procs :
        cmd[p] \in SubmitCmds =>
            /\ SubmitOrdered(p)
            /\ SpawnNonceZero(p)
            /\ \A i \in Events(trace[p], {"Spend"}) :
                    LET counter == resp[p].counter
                        nonce == trace[p][i].v[4]
                    IN  IF counter = MaxUint64
                        THEN nonce = Uint64(0)
                        ELSE Uint64Succ(counter, nonce)

\* C11 witness: a send was submitted with nonce 42 after the node answered
\* with the counter 41
C11_SendSubmittedWithNextNonce ==
    \E p \in Procs :
        /\ cmd[p] = "send"
        /\ exit[p] = "ok"
        /\ resp[p].counter = Uint64(41)
        /\ \E i \in Events(trace[p], {"rpc_SubmitTransaction"}) :
                trace[p][i].v[4] = Uint64(42)

=============================================================================
